---- MODULE Spec2Model ----
(***************************************************************************)
(* Model of the marktplaats scraper: MpScraper.get_listings                *)
(* (src/mpscraper/mpscraper.py), the process driver main                   *)
(* (src/mpscraper/__main__.py) and remove_duplicate_listings               *)
(* (src/mpscraper/utils.py).                                               *)
(*                                                                         *)
(* The site is the environment: every fetch (listings count, subcategory   *)
(* discovery, listing page, listing detail) answers with a nondeterministic*)
(* outcome, either a payload or one of the exceptions the driver can raise.*)
(* The program is single-threaded; an external interrupt (SIGTERM/Ctrl-C,  *)
(* raised as KeyboardInterrupt) is an outcome of the blocking operations.  *)
(***************************************************************************)
EXTENDS Integers, Sequences, FiniteSets, TLC

\* ---------------------------------------------------------------- bounds
\* ordinary (non sponsored) item ids are m1 .. m<MaxItem>
MaxItem == 2
\* requested limits are 0 .. MaxLimit
MaxLimit == 2
\* a category serves at most MaxPage non-empty pages
MaxPage == 2
\* a page holds at most MaxPageLen raw items
MaxPageLen == 2
\* length of the datasets given to remove_duplicate_listings
MaxRows == 3
\* rows of the prior dataset file
MaxPriorRows == 2
\* args.recrawl_hours is 1 .. MaxRecrawlHours
MaxRecrawlHours == 1
\* the datetimes given to diff_hours lie within MaxDays + 1 days
MaxDays == 1
\* length of the texts given to format_text
MaxTextLen == 5

\* ------------------------------------------------------ program constants
MARKTPLAATS_ADVERTISEMENT_PREFIX == "a"
ORDINARY_PREFIX == "m"

\* the site reports a listings count in 0 .. MaxCount
MaxCount == MaxLimit + 1

\* Category ids (a Category is identified by its id; its url only names the
\* page that is fetched).
ParentCategoryIds == {1, 2}
SubcategoryIds == {3, 4}
CategoryIds == ParentCategoryIds \cup SubcategoryIds

\* An item id is a string; the model keeps its first character and a number.
OrdinaryIds == {<<ORDINARY_PREFIX, n>> : n \in 1..MaxItem}
SponsoredIds == {<<MARKTPLAATS_ADVERTISEMENT_PREFIX, 1>>}
ItemIds == OrdinaryIds \cup SponsoredIds

\* A raw item of a search-result page: res_listing["itemId"], ["categoryId"].
\* The code only compares categoryId with the id of the category being
\* crawled, so the page of category c reports c or one other category.
OtherCategory(c) == CHOOSE d \in CategoryIds : d # c
RawItems(c) == [itemId : ItemIds, categoryId : {c, OtherCategory(c)}]

\* Sequences of length 0 .. n over S.
SeqUpTo(S, n) == UNION {[1..k -> S] : k \in 0..n}

\* The res_listings a listing page of category c can carry.
PageContents(c) == SeqUpTo(RawItems(c), MaxPageLen)

\* All orderings of a finite set (list(subcategories) of a Python set).
Orderings(S) == {s \in [1..Cardinality(S) -> S] : \A i, j \in 1..Cardinality(S) : s[i] = s[j] => i = j}

\* Time in hours.  NOW_TIMESTAMP is what get_utc_now() reads during a first
\* run; the rows of a prior dataset were crawled at OLD_TIMESTAMP or later.
OLD_TIMESTAMP == 0
NOW_TIMESTAMP == 2

\* Exceptions the driver raises while fetching or parsing.  "Disconnected" is
\* a WebDriverException whose msg holds ERR_INTERNET_DISCONNECTED,
\* "WebDriverException" any other one, "Exception" any other Exception
\* subclass (KeyError, JSONDecodeError, ValueError, ...).
Faults == {"ForbiddenError", "MPError", "ElementNotFound", "TimeoutException",
           "Disconnected", "WebDriverException", "Exception", "KeyboardInterrupt"}

VARIABLES
  \* ---- main (process driver)
  mainpc,             \* position of main
  file,               \* the dataset file: [exists, rows]
  listings_df,        \* main's listings_df (sequence of rows)
  main_item_ids,      \* main's item_ids, the exclusion set
  args_limit,         \* args.limit
  remaining_limit,    \* main's remaining_limit
  stop,               \* main's stop
  parent_categories,  \* parent categories still to iterate
  session,            \* the browser session: "none", "open", "closed"
  raised,             \* the exception main ended with, "none" if none
  args_recrawl_hours, \* args.recrawl_hours, in hours
  utc_now,            \* the clock read by get_utc_now(), in hours
  run,                \* "first" or "second" run of the program on the dataset file
  \* ---- get_listings frame
  glpc,               \* position inside get_listings
  parent_category,    \* argument parent_category (its id)
  arg_limit,          \* argument limit as passed by the caller
  existing_item_ids,  \* argument existing_item_ids (the caller's set)
  listings,           \* local listings
  item_ids,           \* local item_ids (copy of existing + accepted)
  listings_count,     \* local listings_count
  limit,              \* local limit after resolution
  max_listings,       \* local max_listings (the effective limit)
  categories,         \* local categories (target list)
  cat_idx,            \* index of the for loop over categories
  current_page,       \* local current_page
  res_listings,       \* local res_listings (page being iterated)
  item_idx,           \* index of the for loop over res_listings
  result,             \* how the call ended: [kind, listings]
  \* ---- history variables (not program state)
  stable,             \* every refetch of a page served the content served before
  served,             \* content served for the current (category, page), <<>> if none
  offered,            \* ordinary ids not in existing served on some page of this call
  accumulated,        \* item ids appended to listings by any call of the run
  accepted_total,     \* number of appends to listings over all calls of the run
  known_skips,        \* raw items skipped as already known by an unlimited call
  writes,             \* number of times the run has written the dataset file
  last_fault,         \* exception the call's handlers caught last: [kind, at]
  ui_timeout,         \* subcategory discovery timed out waiting for the category UI
  \* ---- remove_duplicate_listings harness
  ddpc, df_in, df_once, df_twice,
  \* ---- harness of the pure functions of utils.py
  utilpc,             \* position of the harness
  text_white_space,   \* format_text: the argument
  text_fmt,           \* format_text: the result
  text_fmt_again,     \* format_text applied to the result
  datetime_offset,    \* diff_hours: argument first, in seconds
  datetime_now,       \* diff_hours: argument last, in seconds
  diff_hours_now      \* diff_hours: the result, a ratio <<numerator, denominator>>

mainVars == <<mainpc, file, listings_df, main_item_ids, args_limit, remaining_limit,
              stop, parent_categories, session, raised, args_recrawl_hours, utc_now, run>>
glVars == <<glpc, parent_category, arg_limit, existing_item_ids, listings, item_ids,
            listings_count, limit, max_listings, categories, cat_idx, current_page,
            res_listings, item_idx, result>>
histVars == <<stable, served, offered, accumulated, accepted_total, known_skips, writes,
              last_fault, ui_timeout>>
ddVars == <<ddpc, df_in, df_once, df_twice>>
utilVars == <<utilpc, text_white_space, text_fmt, text_fmt_again, datetime_offset,
              datetime_now, diff_hours_now>>
vars == <<mainVars, glVars, histVars, ddVars, utilVars>>


\* ------------------------------------------------------------ dataset rows
\* A Listing / dataset row, reduced to the fields the crawl logic decides.
Rows == [item_id : ItemIds, parent_category_id : CategoryIds,
         child_category_id : CategoryIds,
         crawled_timestamp : OLD_TIMESTAMP..(NOW_TIMESTAMP + 1)]

\* [listing.item_id for listing in listings], as a set
IdsOf(rows) == {rows[i].item_id : i \in 1..Len(rows)}

\* -------------------------------------------------- get_listings: helpers
\* Faulty variant: a positive limit is not clamped to the listings count
ResolveLimitNoClamp(lim, count) == IF lim = 0 THEN count ELSE lim

\* if limit > listings_count or limit == 0: limit = listings_count
ResolveLimit(lim, count) == IF lim > count \/ lim = 0 THEN count ELSE lim

\* Faulty variant: the prefix test inverted
IsSponsoredInverted(id) == id[1] # MARKTPLAATS_ADVERTISEMENT_PREFIX

\* item_id[0] == MARKTPLAATS_ADVERTISEMENT_PREFIX
IsSponsored(id) == id[1] = MARKTPLAATS_ADVERTISEMENT_PREFIX

\* Faulty variant: the known-item skip left out
IsKnownNever(id, ids) == FALSE

\* item_id in item_ids
IsKnown(id, ids) == id \in ids

\* Faulty variant: the effective limit is not lowered by a known item
KnownSkipMaxUnchanged(max, lim, count) == max

\* Faulty variant: every known item lowers the effective limit
KnownSkipMaxAlways(max, lim, count) == max - 1

\* if limit == listings_count: max_listings -= 1   (skip of a known item)
KnownSkipMax(max, lim, count) == IF lim = count THEN max - 1 ELSE max

\* if listing_details is None: max_listings -= 1
FailedItemMax(max) == max - 1

\* Faulty variant: the loop goes on while the count is at the effective limit
LoopContinuesAtLimit(ls, max) == Len(ls) <= max

\* while len(listings) < max_listings
LoopContinues(ls, max) == Len(ls) < max

\* Faulty variant: the break taken one item late
LimitReachedLate(ls, lim) == Len(ls) > lim

\* if len(listings) == limit: break
LimitReached(ls, lim) == Len(ls) = lim

\* Faulty variant: the page number is not advanced
NextPageSame(p) == p

\* current_page += 1
NextPage(p) == p + 1

\* Faulty variant: parent_category_id taken from the page's category
NewListingChildAsParent(raw, parent) ==
  [item_id |-> raw.itemId, parent_category_id |-> raw.categoryId,
   child_category_id |-> raw.categoryId, crawled_timestamp |-> utc_now]

\* Listing(item_id=item_id, parent_category_id=parent_category.id,
\*         child_category_id=child_category_id, crawled_timestamp=get_utc_now(), ...)
NewListing(raw, parent) ==
  [item_id |-> raw.itemId, parent_category_id |-> parent,
   child_category_id |-> raw.categoryId, crawled_timestamp |-> utc_now]

\* Faulty variant: a page-load timeout is not retried but ends the call
PageHandlerTimeoutAborts(f) ==
  CASE f = "ForbiddenError" -> "sleep"
    [] f = "MPError" -> "retry"
    [] f = "ElementNotFound" -> "retry"
    [] f = "Disconnected" -> "sleep"
    [] f = "WebDriverException" -> "raise"
    [] f = "KeyboardInterrupt" -> "ListingsInterrupt"
    [] OTHER -> "ListingsError"

\* Faulty variant: a site error or a missing element ends the call
PageHandlerLoggedFaultAborts(f) ==
  CASE f = "ForbiddenError" -> "sleep"
    [] f = "TimeoutException" -> "retry"
    [] f = "Disconnected" -> "sleep"
    [] f = "WebDriverException" -> "raise"
    [] f = "KeyboardInterrupt" -> "ListingsInterrupt"
    [] OTHER -> "ListingsError"

\* The except clauses of the page loop's try, in order: what is done with an
\* exception that reaches them.
\*   "sleep"  sleep(timeout_seconds), then continue
\*   "retry"  continue
\*   "raise"  raise exc, out of get_listings
PageHandler(f) ==
  CASE f = "ForbiddenError" -> "sleep"
    [] f = "MPError" -> "retry"
    [] f = "ElementNotFound" -> "retry"
    [] f = "TimeoutException" -> "retry"
    [] f = "Disconnected" -> "sleep"
    [] f = "WebDriverException" -> "raise"
    [] f = "KeyboardInterrupt" -> "ListingsInterrupt"
    [] OTHER -> "ListingsError"

\* Faulty variant: a rate limit of the detail fetch is left to the page loop
DetailHandlerRateLimitPropagates(f) ==
  CASE f = "MPError" -> "fail"
    [] f = "ElementNotFound" -> "fail"
    [] OTHER -> "propagate"

\* Faulty variant: a generic site error of the detail fetch is not caught
DetailHandlerSiteErrorPropagates(f) ==
  CASE f = "ForbiddenError" -> "sleep"
    [] f = "ElementNotFound" -> "fail"
    [] OTHER -> "propagate"

\* The except clauses around __get_listing_details, in order.
\*   "sleep"      sleep(wait_seconds), then call __get_listing_details again
\*   "fail"       log; listing_details stays None
\*   "propagate"  not caught here (or re-raised): reaches the page loop's handlers
DetailHandler(f) ==
  CASE f = "ForbiddenError" -> "sleep"
    [] f = "MPError" -> "fail"
    [] f = "ElementNotFound" -> "fail"
    [] OTHER -> "propagate"

\* The way get_listings is left.
Exit(kind, ls) ==
  /\ result' = [kind |-> kind, listings |-> ls]
  /\ glpc' = "exit"

NoResult == [kind |-> "none", listings |-> <<>>]

\* No exception has reached the page loop's handlers since the last page
\* was fetched.
NoFault == [kind |-> "none", at |-> "none"]

\* The target category of the current for-loop iteration.
category_id == categories[cat_idx]

\* The pages the site can serve for page number p.
PagesAt(c, p) == IF p > MaxPage THEN {<<>>} ELSE PageContents(c)

\* Ordinary ids on a page that the caller does not already have.
FreshOn(pg) == {pg[i].itemId : i \in 1..Len(pg)} \ (SponsoredIds \cup existing_item_ids)

\* ------------------------------------------------ get_listings: the steps
\* Entry: listings = [], item_ids = existing_item_ids.copy()
EnterGetListings(parent, lim, existing) ==
  /\ glpc' = "count"
  /\ parent_category' = parent
  /\ arg_limit' = lim
  /\ existing_item_ids' = existing
  /\ listings' = <<>>
  /\ item_ids' = existing
  /\ listings_count' = 0
  /\ limit' = lim
  /\ max_listings' = 0
  /\ categories' = <<>>
  /\ cat_idx' = 1
  /\ current_page' = 1
  /\ res_listings' = <<>>
  /\ item_idx' = 1
  /\ result' = NoResult
  /\ stable' = TRUE
  /\ served' = <<>>
  /\ offered' = {}
  /\ known_skips' = 0
  /\ last_fault' = NoFault
  /\ ui_timeout' = FALSE

\* listings_count = self.listings_count(parent_category); the limit is resolved.
ListingsCountOk ==
  /\ glpc = "count"
  /\ \E c \in 0..MaxCount :
       /\ listings_count' = c
       /\ limit' = ResolveLimit(limit, c)
       /\ max_listings' = ResolveLimit(limit, c)
  /\ glpc' = "subcats"
  /\ UNCHANGED <<parent_category, arg_limit, existing_item_ids, listings, item_ids,
                 categories, cat_idx, current_page, res_listings, item_idx, result>>
  /\ UNCHANGED <<mainVars, histVars, ddVars, utilVars>>

\* listings_count raises: the call is outside every try of get_listings.
ListingsCountFault ==
  /\ glpc = "count"
  /\ \E f \in Faults : Exit(f, <<>>)
  /\ UNCHANGED <<parent_category, arg_limit, existing_item_ids, listings, item_ids,
                 listings_count, limit, max_listings, categories, cat_idx,
                 current_page, res_listings, item_idx>>
  /\ UNCHANGED <<mainVars, histVars, ddVars, utilVars>>

\* What __get_subcategories returns: nothing when the wait for the category
\* UI times out (except TimeoutException: return subcategories), else the
\* subcategories it found on the page.
SubcategoriesReturned(timed_out, found) == IF timed_out THEN {} ELSE found

\* Faulty variant: the parent category is crawled besides its subcategories
TargetCategoriesWithParent(subcategories, parent) ==
  {<<parent>> \o s : s \in Orderings(subcategories)}

\* if len(subcategories) > 0: categories = list(subcategories)
\* else: categories = [parent_category]
TargetCategories(subcategories, parent) ==
  IF Cardinality(subcategories) > 0
    THEN Orderings(subcategories)
    ELSE {<<parent>>}

\* __get_subcategories returns: the targets are resolved.
GetSubcategoriesOk ==
  /\ glpc = "subcats"
  /\ \E timed_out \in BOOLEAN, found \in SUBSET SubcategoryIds :
       /\ categories' \in TargetCategories(SubcategoriesReturned(timed_out, found),
                                            parent_category)
       /\ ui_timeout' = timed_out
  /\ cat_idx' = 1
  /\ current_page' = 1
  /\ glpc' = "page"
  /\ UNCHANGED <<parent_category, arg_limit, existing_item_ids, listings, item_ids,
                 listings_count, limit, max_listings, res_listings, item_idx, result>>
  /\ UNCHANGED <<stable, served, offered, accumulated, accepted_total, known_skips, writes,
                 last_fault>>
  /\ UNCHANGED <<mainVars, ddVars, utilVars>>

\* Faulty variant: an exception of the discovery is let through as it is
DiscoveryHandlerPropagates(f) == "propagate"

\* except Exception as exc: raise ListingsError(listings=listings, ...)
\* A KeyboardInterrupt is no Exception: it leaves the call as it is.
DiscoveryHandler(f) == IF f = "KeyboardInterrupt" THEN "propagate" ELSE "ListingsError"

\* __get_subcategories raises (any exception but the timeout of the UI wait,
\* which it catches itself).
GetSubcategoriesFault ==
  /\ glpc = "subcats"
  /\ \E f \in Faults :
       /\ IF DiscoveryHandler(f) = "ListingsError"
            THEN Exit("ListingsError", listings)
            ELSE Exit(f, <<>>)
       /\ last_fault' = [kind |-> f, at |-> "subcats"]
  /\ UNCHANGED <<parent_category, arg_limit, existing_item_ids, listings, item_ids,
                 listings_count, limit, max_listings, categories, cat_idx,
                 current_page, res_listings, item_idx>>
  /\ UNCHANGED <<stable, served, offered, accumulated, accepted_total, known_skips, writes,
                 ui_timeout>>
  /\ UNCHANGED <<mainVars, ddVars, utilVars>>

\* for category_id, category_url in categories: exhausted -> return listings
Return ==
  /\ glpc = "page"
  /\ cat_idx > Len(categories)
  /\ Exit("return", listings)
  /\ UNCHANGED <<parent_category, arg_limit, existing_item_ids, listings, item_ids,
                 listings_count, limit, max_listings, categories, cat_idx,
                 current_page, res_listings, item_idx>>
  /\ UNCHANGED <<mainVars, histVars, ddVars, utilVars>>

\* The while condition is false: the for loop takes the next category.
NextCategory ==
  /\ glpc = "page"
  /\ cat_idx <= Len(categories)
  /\ ~LoopContinues(listings, max_listings)
  /\ cat_idx' = cat_idx + 1
  /\ current_page' = 1
  /\ served' = <<>>
  /\ last_fault' = NoFault
  /\ UNCHANGED <<glpc, parent_category, arg_limit, existing_item_ids, listings, item_ids,
                 listings_count, limit, max_listings, categories, res_listings,
                 item_idx, result>>
  /\ UNCHANGED <<stable, offered, accumulated, accepted_total, known_skips, writes,
                 ui_timeout>>
  /\ UNCHANGED <<mainVars, ddVars, utilVars>>

\* The page is fetched and parsed with res_listings = pg, a page the site
\* can serve (see FetchPageOk); an empty page ends the category.
FetchPageOf(pg) ==
  /\ glpc = "page"
  /\ cat_idx <= Len(categories)
  /\ LoopContinues(listings, max_listings)
  /\ IF Len(pg) = 0
       THEN /\ cat_idx' = cat_idx + 1
            /\ current_page' = 1
            /\ UNCHANGED <<glpc, res_listings, item_idx>>
       ELSE /\ res_listings' = pg
            /\ item_idx' = 1
            /\ glpc' = "items"
            /\ UNCHANGED <<cat_idx, current_page>>
  /\ stable' = (stable /\ (served = <<>> \/ served = pg))
  /\ served' = IF stable' THEN pg ELSE <<>>
  /\ offered' = IF stable' THEN offered \cup FreshOn(pg) ELSE {}
  /\ last_fault' = NoFault
  /\ UNCHANGED <<parent_category, arg_limit, existing_item_ids, listings, item_ids,
                 listings_count, limit, max_listings, categories, result>>
  /\ UNCHANGED <<accumulated, accepted_total, known_skips, writes, ui_timeout>>
  /\ UNCHANGED <<mainVars, ddVars, utilVars>>

\* The site serves one of the pages it can serve for the page number.
FetchPageOk ==
  /\ glpc = "page"
  /\ cat_idx <= Len(categories)
  /\ \E pg \in PagesAt(category_id, current_page) : FetchPageOf(pg)

\* What the page loop's handlers do with exception f (raised by the page
\* fetch, or by a detail fetch that does not handle it).
HandleAtPage(f) ==
  /\ CASE PageHandler(f) = "sleep" -> glpc' = "page_sleep" /\ UNCHANGED result
       [] PageHandler(f) = "retry" -> glpc' = "page" /\ UNCHANGED result
       [] PageHandler(f) = "raise" -> Exit(f, <<>>)
       [] PageHandler(f) = "ListingsInterrupt" -> Exit("ListingsInterrupt", listings)
       [] OTHER -> Exit("ListingsError", listings)
  /\ res_listings' = <<>>
  /\ item_idx' = 1
  /\ last_fault' = [kind |-> f, at |-> IF glpc = "page" THEN "page" ELSE "item"]
  /\ UNCHANGED <<stable, served, offered, accumulated, accepted_total, known_skips, writes,
                 ui_timeout>>

\* Fetching or parsing the page raises.
FetchPageFault ==
  /\ glpc = "page"
  /\ cat_idx <= Len(categories)
  /\ LoopContinues(listings, max_listings)
  /\ \E f \in Faults : HandleAtPage(f)
  /\ UNCHANGED <<parent_category, arg_limit, existing_item_ids, listings, item_ids,
                 listings_count, limit, max_listings, categories, cat_idx, current_page>>
  /\ UNCHANGED <<mainVars, ddVars, utilVars>>

\* sleep(timeout_seconds) inside the ForbiddenError / disconnected handler ends.
PageSleepDone ==
  /\ glpc = "page_sleep"
  /\ glpc' = "page"
  /\ UNCHANGED <<parent_category, arg_limit, existing_item_ids, listings, item_ids,
                 listings_count, limit, max_listings, categories, cat_idx,
                 current_page, res_listings, item_idx, result>>
  /\ UNCHANGED <<mainVars, histVars, ddVars, utilVars>>

\* The interrupt arrives during that sleep: it is raised inside an except
\* clause, so no sibling clause of the same try catches it.
PageSleepInterrupt ==
  /\ glpc = "page_sleep"
  /\ Exit("KeyboardInterrupt", <<>>)
  /\ UNCHANGED <<parent_category, arg_limit, existing_item_ids, listings, item_ids,
                 listings_count, limit, max_listings, categories, cat_idx,
                 current_page, res_listings, item_idx>>
  /\ UNCHANGED <<mainVars, histVars, ddVars, utilVars>>

\* The for loop over res_listings has a current item and did not break.
AtItem ==
  /\ glpc = "items"
  /\ item_idx <= Len(res_listings)
  /\ ~LimitReached(listings, limit)

raw_item == res_listings[item_idx]

\* The for loop ends (exhausted, or break at the limit): current_page += 1.
EndOfPage ==
  /\ glpc = "items"
  /\ item_idx > Len(res_listings) \/ LimitReached(listings, limit)
  /\ current_page' = NextPage(current_page)
  /\ glpc' = "page"
  /\ res_listings' = <<>>
  /\ item_idx' = 1
  /\ served' = <<>>
  /\ UNCHANGED <<parent_category, arg_limit, existing_item_ids, listings, item_ids,
                 listings_count, limit, max_listings, categories, cat_idx, result>>
  /\ UNCHANGED <<stable, offered, accumulated, accepted_total, known_skips, writes,
                 last_fault, ui_timeout>>
  /\ UNCHANGED <<mainVars, ddVars, utilVars>>

\* skip sponsored advertisement listings
SkipSponsored ==
  /\ AtItem
  /\ IsSponsored(raw_item.itemId)
  /\ item_idx' = item_idx + 1
  /\ UNCHANGED <<glpc, parent_category, arg_limit, existing_item_ids, listings, item_ids,
                 listings_count, limit, max_listings, categories, cat_idx,
                 current_page, res_listings, result>>
  /\ UNCHANGED <<mainVars, histVars, ddVars, utilVars>>

\* skip if we already have this item_id
SkipKnown ==
  /\ AtItem
  /\ ~IsSponsored(raw_item.itemId)
  /\ IsKnown(raw_item.itemId, item_ids)
  /\ max_listings' = KnownSkipMax(max_listings, limit, listings_count)
  /\ item_idx' = item_idx + 1
  /\ known_skips' = IF arg_limit = 0 THEN known_skips + 1 ELSE known_skips
  /\ UNCHANGED <<glpc, parent_category, arg_limit, existing_item_ids, listings, item_ids,
                 listings_count, limit, categories, cat_idx, current_page,
                 res_listings, result>>
  /\ UNCHANGED <<stable, served, offered, accumulated, accepted_total, writes, last_fault,
                 ui_timeout>>
  /\ UNCHANGED <<mainVars, ddVars, utilVars>>

\* The item passed the two skips.
AtNewItem ==
  /\ AtItem
  /\ ~IsSponsored(raw_item.itemId)
  /\ ~IsKnown(raw_item.itemId, item_ids)

\* Faulty variant: the category id of the raw item is not checked
UnexpectedCategoryNever(child_category_id, id) == FALSE

\* if child_category_id != category_id: raise UnexpectedCategoryId
UnexpectedCategory(child_category_id, id) == child_category_id # id

\* raise UnexpectedCategoryId: handled as any other Exception by the page loop.
CategoryMismatch ==
  /\ AtNewItem
  /\ UnexpectedCategory(raw_item.categoryId, category_id)
  /\ HandleAtPage("UnexpectedCategoryId")
  /\ UNCHANGED <<parent_category, arg_limit, existing_item_ids, listings, item_ids,
                 listings_count, limit, max_listings, categories, cat_idx, current_page>>
  /\ UNCHANGED <<mainVars, ddVars, utilVars>>

\* Faulty variant: item_ids is the caller's set itself, not a copy of it
ExistingAfterAddAliased(existing, id) == existing \cup {id}

\* item_ids = existing_item_ids.copy(): item_ids.add(item_id) leaves the
\* caller's set as it is
ExistingAfterAdd(existing, id) == existing

\* __get_listing_details succeeds: the listing is appended.
DetailOk ==
  /\ AtNewItem
  /\ ~UnexpectedCategory(raw_item.categoryId, category_id)
  /\ listings' = Append(listings, NewListing(raw_item, parent_category))
  /\ item_ids' = item_ids \cup {raw_item.itemId}
  /\ item_idx' = item_idx + 1
  /\ accumulated' = accumulated \cup {raw_item.itemId}
  /\ accepted_total' = accepted_total + 1
  /\ existing_item_ids' = ExistingAfterAdd(existing_item_ids, raw_item.itemId)
  /\ UNCHANGED <<glpc, parent_category, arg_limit, listings_count,
                 limit, max_listings, categories, cat_idx, current_page,
                 res_listings, result>>
  /\ UNCHANGED <<stable, served, offered, known_skips, writes, last_fault, ui_timeout>>
  /\ UNCHANGED <<mainVars, ddVars, utilVars>>

\* __get_listing_details raises f.
DetailFaultOf(f) ==
  /\ AtNewItem
  /\ ~UnexpectedCategory(raw_item.categoryId, category_id)
  /\ CASE DetailHandler(f) = "sleep" ->
            /\ glpc' = "detail_sleep"
            /\ UNCHANGED <<max_listings, res_listings, item_idx, result>>
            /\ UNCHANGED histVars
       [] DetailHandler(f) = "fail" ->
            /\ max_listings' = FailedItemMax(max_listings)
            /\ item_idx' = item_idx + 1
            /\ UNCHANGED <<glpc, res_listings, result>>
            /\ UNCHANGED histVars
       [] OTHER ->
            /\ HandleAtPage(f)
            /\ UNCHANGED max_listings
  /\ UNCHANGED <<parent_category, arg_limit, existing_item_ids, listings, item_ids,
                 listings_count, limit, categories, cat_idx, current_page>>
  /\ UNCHANGED <<mainVars, ddVars, utilVars>>

DetailFault == \E f \in Faults : DetailFaultOf(f)

\* sleep(wait_seconds) of the detail retry loop ends: the fetch is repeated.
DetailSleepDone ==
  /\ glpc = "detail_sleep"
  /\ glpc' = "items"
  /\ UNCHANGED <<parent_category, arg_limit, existing_item_ids, listings, item_ids,
                 listings_count, limit, max_listings, categories, cat_idx,
                 current_page, res_listings, item_idx, result>>
  /\ UNCHANGED <<mainVars, histVars, ddVars, utilVars>>

\* The interrupt arrives during that sleep: except KeyboardInterrupt: raise exc,
\* which the page loop's handlers then receive.
DetailSleepInterrupt ==
  /\ glpc = "detail_sleep"
  /\ HandleAtPage("KeyboardInterrupt")
  /\ UNCHANGED <<parent_category, arg_limit, existing_item_ids, listings, item_ids,
                 listings_count, limit, max_listings, categories, cat_idx, current_page>>
  /\ UNCHANGED <<mainVars, ddVars, utilVars>>

GetListingsStep ==
  \/ ListingsCountOk
  \/ ListingsCountFault
  \/ GetSubcategoriesOk
  \/ GetSubcategoriesFault
  \/ Return
  \/ NextCategory
  \/ FetchPageOk
  \/ FetchPageFault
  \/ PageSleepDone
  \/ PageSleepInterrupt
  \/ EndOfPage
  \/ SkipSponsored
  \/ SkipKnown
  \/ CategoryMismatch
  \/ DetailOk
  \/ DetailFault
  \/ DetailSleepDone
  \/ DetailSleepInterrupt

\* ------------------------------------------------ remove_duplicate_listings
\* Faulty variant: nothing is dropped
KeepAllRows(df) == df

\* Faulty variant: keep="first": a row survives iff no earlier row has its item_id
KeepFirstRows(df) ==
  LET F[i \in 0..Len(df)] ==
        IF i = 0 THEN <<>>
        ELSE IF \E j \in 1..(i - 1) : df[j].item_id = df[i].item_id
               THEN F[i - 1]
               ELSE Append(F[i - 1], df[i])
  IN F[Len(df)]

\* df.drop_duplicates(subset=["item_id"], keep="last", ignore_index=True):
\* a row survives iff no later row has its item_id; the survivors keep their order.
RemoveDuplicateListings(df) ==
  LET F[i \in 0..Len(df)] ==
        IF i = 0 THEN <<>>
        ELSE IF \E j \in (i + 1)..Len(df) : df[j].item_id = df[i].item_id
               THEN F[i - 1]
               ELSE Append(F[i - 1], df[i])
  IN F[Len(df)]

\* The harness that applies remove_duplicate_listings to a dataset, twice.
DedupeOnce ==
  /\ ddpc = "in"
  /\ df_once' = RemoveDuplicateListings(df_in)
  /\ ddpc' = "once"
  /\ UNCHANGED <<df_in, df_twice>>
  /\ UNCHANGED <<mainVars, glVars, histVars, utilVars>>

DedupeTwice ==
  /\ ddpc = "once"
  /\ df_twice' = RemoveDuplicateListings(df_once)
  /\ ddpc' = "twice"
  /\ UNCHANGED <<df_in, df_once>>
  /\ UNCHANGED <<mainVars, glVars, histVars, utilVars>>

\* ------------------------------------------------------------- diff_hours
\* datetime.timedelta keeps a duration as days and 0 <= seconds < 86400
\* (and microseconds, which diff_hours does not read).
SECONDS_PER_DAY == 86400
HOURS_PER_DAY == 24
SECONDS_PER_HOUR == 3600

\* diff.days and diff.seconds of the timedelta of d seconds
TimedeltaDays(d) == d \div SECONDS_PER_DAY
TimedeltaSeconds(d) == d % SECONDS_PER_DAY

\* Faulty variant: only diff.seconds is used
diff_hours_seconds_only(first, last) ==
  <<TimedeltaSeconds(last - first), SECONDS_PER_HOUR>>

\* diff = last - first; return (days * 24) + (seconds / 3600)
\* The quotient is kept as the ratio <<numerator, denominator>> (the float
\* the code returns is that ratio rounded to a double).
diff_hours(first, last) ==
  LET diff == last - first
      days == TimedeltaDays(diff)
      seconds == TimedeltaSeconds(diff)
  IN <<(days * HOURS_PER_DAY) * SECONDS_PER_HOUR + seconds, SECONDS_PER_HOUR>>

\* Seconds of the day of the datetimes given to diff_hours: the offsets of
\* test_diff_hours (0.5 h, 2.5 h, 3.99 h, 4.33 h) and the ends of the day.
SecondsOfDay == {0, 1, 1800, 9000, 14364, 15588, SECONDS_PER_DAY - 1}

DiffTimes == {d * SECONDS_PER_DAY + sec : d \in 0..MaxDays, sec \in SecondsOfDay}

\* The harness: diff_hours_now = diff_hours(datetime_offset, datetime_now)
DiffHours ==
  /\ utilpc = "diff_in"
  /\ diff_hours_now' = diff_hours(datetime_offset, datetime_now)
  /\ utilpc' = "diffed"
  /\ UNCHANGED <<text_white_space, text_fmt, text_fmt_again, datetime_offset, datetime_now>>
  /\ UNCHANGED <<mainVars, glVars, histVars, ddVars>>

\* ------------------------------------------------------------ format_text
\* Characters of a text: two letters and two kinds of whitespace.
Whitespace == {" ", "\n"}
Chars == {"a", "b"} \cup Whitespace

\* Faulty variant: only the blank separates (text.split(" ") without empties)
IsSpaceOnlyBlank(c) == c = " "

\* str.split() without argument separates at whitespace
IsSpace(c) == c \in Whitespace

\* text.split(): the maximal runs of characters that are no whitespace
Split(text) ==
  LET F[i \in 0..Len(text)] ==
        IF i = 0 THEN [done |-> <<>>, cur |-> <<>>]
        ELSE IF IsSpace(text[i])
               THEN IF F[i - 1].cur = <<>>
                      THEN F[i - 1]
                      ELSE [done |-> Append(F[i - 1].done, F[i - 1].cur), cur |-> <<>>]
               ELSE [done |-> F[i - 1].done, cur |-> Append(F[i - 1].cur, text[i])]
      end == F[Len(text)]
  IN IF end.cur = <<>> THEN end.done ELSE Append(end.done, end.cur)

\* sep.join(words)
Join(sep, words) ==
  LET J[i \in 0..Len(words)] ==
        IF i = 0 THEN <<>>
        ELSE IF i = 1 THEN words[1]
        ELSE J[i - 1] \o <<sep>> \o words[i]
  IN J[Len(words)]

\* " ".join(text.split())
format_text(text) == Join(" ", Split(text))

\* The harness: text_fmt = format_text(text), then format_text(text_fmt)
FormatText ==
  /\ utilpc = "text_in"
  /\ text_fmt' = format_text(text_white_space)
  /\ utilpc' = "formatted"
  /\ UNCHANGED <<text_white_space, text_fmt_again, datetime_offset, datetime_now,
                 diff_hours_now>>
  /\ UNCHANGED <<mainVars, glVars, histVars, ddVars>>

FormatTextAgain ==
  /\ utilpc = "formatted"
  /\ text_fmt_again' = format_text(text_fmt)
  /\ utilpc' = "formatted_again"
  /\ UNCHANGED <<text_white_space, text_fmt, datetime_offset, datetime_now, diff_hours_now>>
  /\ UNCHANGED <<mainVars, glVars, histVars, ddVars>>

\* ------------------------------------------------------------------- main
\* The get_listings frame when no call is active.
FrameIdle ==
  /\ glpc' = "idle"
  /\ parent_category' = 1
  /\ arg_limit' = 0
  /\ existing_item_ids' = {}
  /\ listings' = <<>>
  /\ item_ids' = {}
  /\ listings_count' = 0
  /\ limit' = 0
  /\ max_listings' = 0
  /\ categories' = <<>>
  /\ cat_idx' = 1
  /\ current_page' = 1
  /\ res_listings' = <<>>
  /\ item_idx' = 1
  /\ result' = NoResult
  /\ stable' = TRUE
  /\ served' = <<>>
  /\ offered' = {}
  /\ known_skips' = 0
  /\ last_fault' = NoFault
  /\ ui_timeout' = FALSE

\* The recrawl loop of main: now_datetime = get_utc_now() is a str, and
\* crawled_timestamp as written by get_utc_now() ends in "+00:00Z", so for the
\* first row either datetime.fromisoformat raises ValueError or
\* diff_hours(datetime, str) raises TypeError.
RecrawlLoopRaises(df) == Len(df) > 0

\* What the first iteration of the recrawl loop raises: ValueError from
\* datetime.fromisoformat for a timestamp written by get_utc_now(), TypeError
\* from diff_hours(datetime, str) for one that parses.
RecrawlErrors == {"ValueError", "TypeError"}

\* Faulty variant: the dataset is always taken to hold duplicates
HasDuplicatesAlways(rows) == TRUE

\* has_duplicates: some item_id of the file was already in item_ids
HasDuplicates(rows) == Cardinality(IdsOf(rows)) < Len(rows)

\* main up to the construction of MpScraper.
Startup ==
  /\ mainpc = "start"
  /\ LET rows == IF file.exists THEN file.rows ELSE <<>>
         has_duplicates == file.exists /\ HasDuplicates(rows)
         df == IF has_duplicates THEN RemoveDuplicateListings(rows) ELSE rows
     IN /\ listings_df' = df
        /\ main_item_ids' = IdsOf(rows)
        /\ file' = IF has_duplicates THEN [exists |-> TRUE, rows |-> df] ELSE file
        /\ writes' = IF has_duplicates THEN writes + 1 ELSE writes
        /\ IF RecrawlLoopRaises(df)
             THEN /\ mainpc' = "crashed"
                  /\ raised' \in RecrawlErrors
                  /\ UNCHANGED session
             ELSE \E chromium_found \in BOOLEAN :
                    IF chromium_found
                      THEN mainpc' = "discover" /\ session' = "open" /\ UNCHANGED raised
                      ELSE /\ mainpc' = "crashed"
                           /\ raised' = "NotFoundError"
                           /\ UNCHANGED session
  /\ UNCHANGED <<args_limit, args_recrawl_hours, utc_now, run, remaining_limit, stop,
                 parent_categories>>
  /\ UNCHANGED <<stable, served, offered, accumulated, accepted_total, known_skips,
                 last_fault, ui_timeout>>
  /\ UNCHANGED <<glVars, ddVars, utilVars>>

\* Faulty variant: an empty set of parent categories is let through
NoCategoriesNever(cats) == FALSE

\* if len(parent_categories) == 0: raise CategoriesError
NoCategories(cats) == Cardinality(cats) = 0

\* parent_categories = mp_scraper.get_parent_categories(); none -> CategoriesError
GetParentCategories ==
  /\ mainpc = "discover"
  /\ \E cats \in SUBSET ParentCategoryIds :
       IF NoCategories(cats)
         THEN /\ mainpc' = "crashed"
              /\ raised' = "CategoriesError"
              /\ UNCHANGED <<parent_categories, remaining_limit, stop>>
         ELSE /\ parent_categories' = cats
              /\ remaining_limit' = args_limit
              /\ stop' = FALSE
              /\ mainpc' = "loop"
              /\ UNCHANGED raised
  /\ UNCHANGED <<file, listings_df, main_item_ids, args_limit, args_recrawl_hours, utc_now,
                 run, session>>
  /\ UNCHANGED <<glVars, histVars, ddVars, utilVars>>

\* get_parent_categories raises (it runs outside the try of main).
GetParentCategoriesFault ==
  /\ mainpc = "discover"
  /\ mainpc' = "crashed"
  /\ raised' \in Faults
  /\ UNCHANGED <<file, listings_df, main_item_ids, args_limit, args_recrawl_hours, utc_now,
                 run, remaining_limit, stop, parent_categories, session>>
  /\ UNCHANGED <<glVars, histVars, ddVars, utilVars>>

\* for parent_category in parent_categories: ... mp_scraper.get_listings(...)
MainCall ==
  /\ mainpc = "loop"
  /\ ~stop
  /\ \E p \in parent_categories :
       /\ parent_categories' = parent_categories \ {p}
       /\ EnterGetListings(p, remaining_limit, main_item_ids)
  /\ mainpc' = "call"
  /\ UNCHANGED <<file, listings_df, main_item_ids, args_limit, args_recrawl_hours, utc_now,
                 run, raised, remaining_limit, stop, session>>
  /\ UNCHANGED <<accumulated, accepted_total, writes, ddVars, utilVars>>

\* The for loop ends (exhausted, or break on stop); mp_scraper.close()
MainClose ==
  /\ mainpc = "loop"
  /\ stop \/ parent_categories = {}
  /\ session' = "closed"
  /\ mainpc' = "save"
  /\ UNCHANGED <<file, listings_df, main_item_ids, args_limit, args_recrawl_hours, utc_now,
                 run, raised, remaining_limit, stop, parent_categories>>
  /\ UNCHANGED <<glVars, histVars, ddVars, utilVars>>

\* Faulty variant: the remaining limit is not reduced
RemainingAfterUnchanged(remaining, n) == remaining

\* remaining_limit = remaining_limit - listings_count
RemainingAfter(remaining, n) == remaining - n

\* Faulty variant: the crawl stops only below zero
LimitUsedUpBelowZero(remaining) == remaining < 0

\* if remaining_limit < 1: stop = True
LimitUsedUp(remaining) == remaining < 1

\* if len(listings) > 0: listings_df = pd.concat([listings_df, category_df])
Concat(df, ls) == IF Len(ls) > 0 THEN df \o ls ELSE df

\* get_listings returned.
MainReturn ==
  /\ mainpc = "call" /\ glpc = "exit"
  /\ result.kind = "return"
  /\ remaining_limit' = RemainingAfter(remaining_limit, Len(result.listings))
  /\ stop' = LimitUsedUp(remaining_limit')
  /\ listings_df' = Concat(listings_df, result.listings)
  /\ mainpc' = "loop"
  /\ FrameIdle
  /\ main_item_ids' = existing_item_ids   \* the set object the call was given
  /\ UNCHANGED <<file, args_limit, args_recrawl_hours, utc_now, run, raised,
                 parent_categories, session>>
  /\ UNCHANGED <<accumulated, accepted_total, writes, ddVars, utilVars>>

\* except ListingsInterrupt / except ListingsError: listings = exc.listings
MainListingsError ==
  /\ mainpc = "call" /\ glpc = "exit"
  /\ result.kind \in {"ListingsError", "ListingsInterrupt"}
  /\ stop' = TRUE
  /\ listings_df' = Concat(listings_df, result.listings)
  /\ mainpc' = "loop"
  /\ FrameIdle
  /\ main_item_ids' = existing_item_ids   \* the set object the call was given
  /\ UNCHANGED <<file, args_limit, args_recrawl_hours, utc_now, run, raised,
                 remaining_limit, parent_categories, session>>
  /\ UNCHANGED <<accumulated, accepted_total, writes, ddVars, utilVars>>

\* except KeyboardInterrupt: stop = True   (listings stays [])
MainKeyboardInterrupt ==
  /\ mainpc = "call" /\ glpc = "exit"
  /\ result.kind = "KeyboardInterrupt"
  /\ stop' = TRUE
  /\ mainpc' = "loop"
  /\ FrameIdle
  /\ main_item_ids' = existing_item_ids   \* the set object the call was given
  /\ UNCHANGED <<file, listings_df, args_limit, args_recrawl_hours, utc_now,
                 run, raised, remaining_limit, parent_categories, session>>
  /\ UNCHANGED <<accumulated, accepted_total, writes, ddVars, utilVars>>

\* Any other exception: except Exception as exc: mp_scraper.close(); raise exc
MainUnexpected ==
  /\ mainpc = "call" /\ glpc = "exit"
  /\ result.kind \notin {"return", "ListingsError", "ListingsInterrupt", "KeyboardInterrupt"}
  /\ session' = "closed"
  /\ mainpc' = "crashed"
  /\ raised' = result.kind
  /\ FrameIdle
  /\ main_item_ids' = existing_item_ids   \* the set object the call was given
  /\ UNCHANGED <<file, listings_df, args_limit, args_recrawl_hours, utc_now,
                 run, remaining_limit, stop, parent_categories>>
  /\ UNCHANGED <<accumulated, accepted_total, writes, ddVars, utilVars>>

\* if len(listings_df.index) > 0: remove_duplicate_listings, save_listings
MainSave ==
  /\ mainpc = "save"
  /\ IF Len(listings_df) > 0
       THEN /\ listings_df' = RemoveDuplicateListings(listings_df)
            /\ file' = [exists |-> TRUE, rows |-> listings_df']
            /\ writes' = writes + 1
       ELSE UNCHANGED <<listings_df, file, writes>>
  /\ mainpc' = "done"
  /\ UNCHANGED <<main_item_ids, args_limit, args_recrawl_hours, utc_now, run, raised,
                 remaining_limit, stop, parent_categories, session>>
  /\ UNCHANGED <<stable, served, offered, accumulated, accepted_total, known_skips,
                 last_fault, ui_timeout>>
  /\ UNCHANGED <<glVars, ddVars, utilVars>>

MainStep ==
  \/ Startup
  \/ GetParentCategories
  \/ GetParentCategoriesFault
  \/ MainCall
  \/ MainClose
  \/ MainReturn
  \/ MainListingsError
  \/ MainKeyboardInterrupt
  \/ MainUnexpected
  \/ MainSave

\* --------------------------------------------------------- specifications
\* Rows a prior dataset file can hold.
PriorRows == [item_id : OrdinaryIds, parent_category_id : {1}, child_category_id : {1},
              crawled_timestamp : OLD_TIMESTAMP..NOW_TIMESTAMP]

FrameIdleInit ==
  /\ glpc = "idle" /\ parent_category = 1 /\ arg_limit = 0 /\ existing_item_ids = {}
  /\ listings = <<>> /\ item_ids = {} /\ listings_count = 0 /\ limit = 0
  /\ max_listings = 0 /\ categories = <<>> /\ cat_idx = 1 /\ current_page = 1
  /\ res_listings = <<>> /\ item_idx = 1 /\ result = NoResult
  /\ stable = TRUE /\ served = <<>> /\ offered = {}
  /\ known_skips = 0 /\ last_fault = NoFault
  /\ ui_timeout = FALSE

MainIdleInit ==
  /\ file = [exists |-> FALSE, rows |-> <<>>]
  /\ listings_df = <<>> /\ main_item_ids = {} /\ args_limit = 0 /\ remaining_limit = 0
  /\ stop = FALSE /\ parent_categories = {} /\ session = "none"
  /\ raised = "none" /\ args_recrawl_hours = 1 /\ utc_now = NOW_TIMESTAMP
  /\ run = "first"

DedupeIdleInit ==
  /\ ddpc = "idle" /\ df_in = <<>> /\ df_once = <<>> /\ df_twice = <<>>

UtilIdleInit ==
  /\ utilpc = "idle"
  /\ text_white_space = <<>> /\ text_fmt = <<>> /\ text_fmt_again = <<>>
  /\ datetime_offset = 0 /\ datetime_now = 0 /\ diff_hours_now = <<0, 1>>

\* The process: main, started with a prior dataset file (or none) and a limit.
Init ==
  /\ mainpc = "start"
  /\ file \in {[exists |-> FALSE, rows |-> <<>>]}
              \cup {[exists |-> TRUE, rows |-> r] : r \in SeqUpTo(PriorRows, MaxPriorRows)}
  /\ args_limit \in 0..MaxLimit
  /\ listings_df = <<>> /\ main_item_ids = {} /\ remaining_limit = 0
  /\ stop = FALSE /\ parent_categories = {} /\ session = "none"
  /\ raised = "none"
  /\ args_recrawl_hours \in 1..MaxRecrawlHours
  /\ utc_now = NOW_TIMESTAMP
  /\ run = "first"
  /\ FrameIdleInit
  /\ accumulated = {} /\ accepted_total = 0 /\ writes = 0
  /\ DedupeIdleInit
  /\ UtilIdleInit

Next == MainStep \/ GetListingsStep

Spec == Init /\ [][Next]_vars

\* The program is started again, at once or an hour later, on the dataset
\* file that a completed first run has written.
Rerun ==
  /\ run = "first"
  /\ mainpc = "done"
  /\ file.exists
  /\ run' = "second"
  /\ utc_now' \in {utc_now, utc_now + 1}
  /\ mainpc' = "start"
  /\ listings_df' = <<>>
  /\ main_item_ids' = {}
  /\ remaining_limit' = 0
  /\ stop' = FALSE
  /\ parent_categories' = {}
  /\ session' = "none"
  /\ raised' = "none"
  /\ accumulated' = {}
  /\ accepted_total' = 0
  /\ writes' = 0
  /\ UNCHANGED <<file, args_limit, args_recrawl_hours>>
  /\ UNCHANGED <<stable, served, offered, known_skips, last_fault, ui_timeout>>
  /\ UNCHANGED <<glVars, ddVars, utilVars>>

\* Two consecutive runs, the first one starting without a dataset file.
InitTwoRuns == Init /\ ~file.exists

NextTwoRuns == MainStep \/ GetListingsStep \/ Rerun

SpecTwoRuns == InitTwoRuns /\ [][NextTwoRuns]_vars

\* One call get_listings(parent_category, limit, existing_item_ids) made
\* directly on a scraper (as the tests do), with the arguments drawn from
\* bounded sets.
InitCall ==
  /\ mainpc = "direct"
  /\ MainIdleInit
  /\ glpc = "count"
  /\ parent_category \in ParentCategoryIds
  /\ arg_limit \in 0..MaxLimit
  /\ limit = arg_limit
  /\ existing_item_ids \in SUBSET OrdinaryIds
  /\ item_ids = existing_item_ids
  /\ listings = <<>> /\ listings_count = 0 /\ max_listings = 0
  /\ categories = <<>> /\ cat_idx = 1 /\ current_page = 1
  /\ res_listings = <<>> /\ item_idx = 1 /\ result = NoResult
  /\ stable = TRUE /\ served = <<>> /\ offered = {}
  /\ known_skips = 0 /\ last_fault = NoFault
  /\ ui_timeout = FALSE
  /\ accumulated = {} /\ accepted_total = 0 /\ writes = 0
  /\ DedupeIdleInit
  /\ UtilIdleInit

NextCall == GetListingsStep

SpecCall == InitCall /\ [][NextCall]_vars

\* remove_duplicate_listings applied to a dataset drawn from a bounded set.
DedupeRows == [item_id : OrdinaryIds, parent_category_id : {1}, child_category_id : {1},
               crawled_timestamp : {OLD_TIMESTAMP, NOW_TIMESTAMP}]

InitDedupe ==
  /\ mainpc = "direct"
  /\ MainIdleInit
  /\ FrameIdleInit
  /\ accumulated = {} /\ accepted_total = 0 /\ writes = 0
  /\ ddpc = "in"
  /\ df_in \in SeqUpTo(DedupeRows, MaxRows)
  /\ df_once = <<>> /\ df_twice = <<>>
  /\ UtilIdleInit

NextDedupe == DedupeOnce \/ DedupeTwice

SpecDedupe == InitDedupe /\ [][NextDedupe]_vars

\* diff_hours applied to two datetimes drawn from a bounded set.
InitDiffHours ==
  /\ mainpc = "direct"
  /\ MainIdleInit
  /\ FrameIdleInit
  /\ accumulated = {} /\ accepted_total = 0 /\ writes = 0
  /\ DedupeIdleInit
  /\ utilpc = "diff_in"
  /\ datetime_offset \in DiffTimes
  /\ datetime_now \in DiffTimes
  /\ diff_hours_now = <<0, 1>>
  /\ text_white_space = <<>> /\ text_fmt = <<>> /\ text_fmt_again = <<>>

NextDiffHours == DiffHours

SpecDiffHours == InitDiffHours /\ [][NextDiffHours]_vars

\* format_text applied to a text drawn from a bounded set.
InitFormatText ==
  /\ mainpc = "direct"
  /\ MainIdleInit
  /\ FrameIdleInit
  /\ accumulated = {} /\ accepted_total = 0 /\ writes = 0
  /\ DedupeIdleInit
  /\ utilpc = "text_in"
  /\ text_white_space \in SeqUpTo(Chars, MaxTextLen)
  /\ text_fmt = <<>> /\ text_fmt_again = <<>>
  /\ datetime_offset = 0 /\ datetime_now = 0 /\ diff_hours_now = <<0, 1>>

NextFormatText == FormatText \/ FormatTextAgain

SpecFormatText == InitFormatText /\ [][NextFormatText]_vars

\* ------------------------------------------------------------------ claims
\* No two rows of a dataset share an item id.
NoDuplicateIds(rows) == \A i, j \in 1..Len(rows) : rows[i].item_id = rows[j].item_id => i = j

\* A call of get_listings is active or has just ended.
InCall == glpc # "idle"

\* C1: for a call with limit L > 0 the accumulated listings never number more
\* than L nor more than the site-reported listings count, while the call runs
\* and in what it returns or carries in ListingsError / ListingsInterrupt.
C1_AccumulatedWithinLimitAndCount ==
  (InCall /\ arg_limit > 0) =>
    /\ Len(listings) <= arg_limit
    /\ Len(listings) <= listings_count
    /\ Len(result.listings) <= arg_limit
    /\ Len(result.listings) <= listings_count

\* C1 witness: the limit is reached while the page still holds a new item of
\* the right category, which the break keeps from being accepted.
C1_Witness ==
  /\ arg_limit > 0
  /\ glpc = "items"
  /\ Len(listings) = arg_limit
  /\ listings_count > arg_limit
  /\ item_idx <= Len(res_listings)
  /\ res_listings[item_idx].itemId \in OrdinaryIds \ item_ids
  /\ res_listings[item_idx].categoryId = category_id

\* C2: the listings accumulated, returned or carried as partial results have
\* pairwise distinct item ids, none of them in existing_item_ids.
C2_DistinctAndNotExisting ==
  InCall =>
    /\ NoDuplicateIds(listings)
    /\ IdsOf(listings) \cap existing_item_ids = {}
    /\ NoDuplicateIds(result.listings)
    /\ IdsOf(result.listings) \cap existing_item_ids = {}

\* C2 witness: on a later page the loop stands at a raw item accepted earlier
\* in the call, next to one the caller already had.
C2_Witness ==
  /\ glpc = "items"
  /\ current_page > 1
  /\ Len(res_listings) = 2
  /\ item_idx = 2
  /\ res_listings[1].itemId \in existing_item_ids
  /\ res_listings[2].itemId \in IdsOf(listings)

\* What the category offers: the ordinary ids, not in existing_item_ids, on
\* the pages of the target categories up to each one's first empty page, on a
\* site that serves a page again as it served it before.
AvailableFresh == offered

C4_NotSponsoredAndParentId ==
  InCall =>
    \A i \in 1..Len(listings) :
      /\ listings[i].item_id[1] # MARKTPLAATS_ADVERTISEMENT_PREFIX
      /\ listings[i].parent_category_id = parent_category

\* C4 witness: a listing was accepted on a subcategory page, and the loop has
\* passed a sponsored raw item.
C4_Witness ==
  /\ glpc = "items"
  /\ item_idx = 2
  /\ res_listings[1].itemId \in SponsoredIds
  /\ Len(listings) > 0
  /\ listings[1].child_category_id \in SubcategoryIds
  /\ listings[1].child_category_id # parent_category

\* C5 (as claimed, for the case it ends on): an interrupt never leaves
\* get_listings as a bare KeyboardInterrupt that drops accumulated listings.
C5_InterruptNeverDropsListings ==
  (glpc = "exit" /\ result.kind = "KeyboardInterrupt") => Len(listings) = 0

\* C6 (as claimed): a fault of the page loop that is not retried, and is no
\* interrupt, leaves get_listings as ListingsError carrying exactly the
\* listings accumulated so far.
C6_UnretriedFaultIsListingsError ==
  (/\ glpc = "exit"
   /\ Len(categories) > 0
   /\ result.kind \notin {"return", "ListingsInterrupt", "KeyboardInterrupt"})
  => (result.kind = "ListingsError" /\ result.listings = listings)

\* The run has ended.
Terminated == mainpc \in {"done", "crashed"}

\* C7 (as claimed): when a run ends after a listing was accumulated in some
\* get_listings call, every accumulated listing is in the dataset file.
C7_AccumulatedListingsAreSaved ==
  (Terminated /\ accumulated # {}) =>
    (file.exists /\ accumulated \subseteq IdsOf(file.rows))

\* C8: in a run with limit L > 0 at most L listings are accepted over all
\* get_listings calls; each call is given the remaining limit, which is L
\* less the listings returned so far, and no call is made once it is below 1.
C8_TotalAcceptedWithinLimit ==
  (args_limit > 0 /\ mainpc \in {"loop", "call", "save", "done", "crashed"}) =>
    /\ accepted_total <= args_limit
    /\ (mainpc = "call" => (arg_limit = remaining_limit /\ arg_limit >= 1))
    /\ ((mainpc = "loop" /\ ~stop) => remaining_limit = args_limit - accepted_total)

\* C8 witness: two parent-category calls each returned one listing of a run
\* with limit 2.
C8_Witness ==
  /\ mainpc = "done"
  /\ args_limit = 2
  /\ accepted_total = 2
  /\ Len(file.rows) = 2
  /\ file.rows[1].parent_category_id # file.rows[2].parent_category_id

\* C9: after the merge pass that ends a run no two rows of the dataset share
\* an item id, and no file the run has written holds two rows with one id.
C9_NoDuplicateIdsAfterMerge ==
  /\ (mainpc = "done" => NoDuplicateIds(listings_df))
  /\ (mainpc # "start" => NoDuplicateIds(file.rows))

\* C9 witness: two parent-category calls returned the same item id, and the
\* run has written its file.
C9_Witness ==
  /\ mainpc = "done"
  /\ args_limit = 2
  /\ remaining_limit = 0
  /\ accepted_total = 2
  /\ Cardinality(accumulated) = 1
  /\ Len(file.rows) = 1

\* The last position of item id `id` in df.
LastIndexOf(df, id) == CHOOSE i \in 1..Len(df) :
  df[i].item_id = id /\ \A j \in (i + 1)..Len(df) : df[j].item_id # id

\* C10: remove_duplicate_listings is idempotent, and for every item id of the
\* input the single surviving row is the last occurrence in input order.
C10_DedupeIdempotentKeepsLast ==
  /\ (ddpc = "twice" => df_twice = df_once)
  /\ (ddpc \in {"once", "twice"} =>
        /\ NoDuplicateIds(df_once)
        /\ IdsOf(df_once) = IdsOf(df_in)
        /\ \A k \in 1..Len(df_once) :
             df_once[k] = df_in[LastIndexOf(df_in, df_once[k].item_id)])

\* C10 witness: an id occurs twice with different rows, between them another id.
C10_Witness ==
  /\ ddpc = "twice"
  /\ Len(df_in) = 3
  /\ df_in[1].item_id = df_in[3].item_id
  /\ df_in[1] # df_in[3]
  /\ df_in[2].item_id # df_in[1].item_id
  /\ Len(df_once) = 2

\* Hours between the crawl of a dataset row and now.
ElapsedHours(row) == utc_now - row.crawled_timestamp

\* The item ids of the rows crawled less than recrawl_hours ago.
FreshIds(rows) ==
  {rows[i].item_id : i \in {j \in 1..Len(rows) : ElapsedHours(rows[j]) < args_recrawl_hours}}

\* main has read the dataset file and has not yet written its result.
AfterStartup == mainpc \in {"discover", "loop", "call", "crashed"}

\* C11 (as claimed): once startup has read the dataset, the exclusion set of
\* main holds an existing item id if and only if the hours elapsed since its
\* crawl are less than recrawl_hours (an item crawled exactly recrawl_hours
\* ago is not in the set).
C11_ExclusionSetIsFreshIds ==
  AfterStartup => main_item_ids = FreshIds(file.rows)

\* C12 (as claimed): the second of two consecutive runs computes its
\* exclusion set (its recrawl loop completes), the set holds every persisted
\* item id crawled less than recrawl_hours ago, no get_listings call of the
\* second run accepts or returns such an id, and the file holds no duplicate
\* item ids after either run.
C12_SecondRunExcludesFreshIds ==
  /\ (run = "second" /\ AfterStartup) =>
       /\ raised \notin RecrawlErrors
       /\ FreshIds(file.rows) \subseteq main_item_ids
       /\ IdsOf(listings) \cap FreshIds(file.rows) = {}
       /\ IdsOf(result.listings) \cap FreshIds(file.rows) = {}
  /\ (mainpc = "done" => NoDuplicateIds(file.rows))

AtMismatchedItem ==
  /\ glpc = "items"
  /\ item_idx <= Len(res_listings)
  /\ Len(listings) # limit
  /\ res_listings[item_idx].itemId[1] # MARKTPLAATS_ADVERTISEMENT_PREFIX
  /\ res_listings[item_idx].itemId \notin item_ids
  /\ res_listings[item_idx].categoryId # categories[cat_idx]

\* C14: at such an item the call accepts nothing and ends with ListingsError
\* carrying exactly the listings accumulated before it; and every listing
\* that is accumulated has the id of the target category being crawled as its
\* child_category_id.
C14_MismatchAbortsWithAccumulated ==
  /\ [][AtMismatchedItem =>
          /\ glpc' = "exit"
          /\ listings' = listings
          /\ result' = [kind |-> "ListingsError", listings |-> listings]]_vars
  /\ [][Len(listings') > Len(listings) =>
          /\ Len(listings') = Len(listings) + 1
          /\ SubSeq(listings', 1, Len(listings)) = listings
          /\ listings'[Len(listings')].child_category_id = categories[cat_idx]]_vars

\* C14 witness: a call ended with ListingsError on a mismatched raw item of a
\* subcategory page, after one listing was accumulated.
C14_Witness ==
  /\ glpc = "exit"
  /\ last_fault = [kind |-> "UnexpectedCategoryId", at |-> "item"]
  /\ result.kind = "ListingsError"
  /\ Len(result.listings) = 1
  /\ result.listings[1].child_category_id \in SubcategoryIds

\* C15 (as claimed): when a run ends after the browser session was created,
\* the session has been closed.
C15_SessionClosedAtEnd ==
  (Terminated /\ session # "none") => session = "closed"

\* C16: a run in which parent-category discovery finds no category ends with
\* CategoriesError before any get_listings call and without writing the
\* dataset file; the crawl loop is entered only with at least one category.
C16_NoCategoriesIsFatal ==
  /\ [](raised = "CategoriesError" =>
          /\ mainpc = "crashed"
          /\ glpc = "idle"
          /\ accepted_total = 0
          /\ accumulated = {}
          /\ writes = 0)
  /\ [][(mainpc = "discover" /\ mainpc' # "discover") =>
          \/ mainpc' = "crashed"
          \/ mainpc' = "loop" /\ parent_categories' # {}]_vars

\* C16 witness: a run with limit 2 has ended with CategoriesError.
C16_Witness ==
  /\ mainpc = "crashed"
  /\ raised = "CategoriesError"
  /\ args_limit = 2
  /\ ~file.exists

\* C17 (as claimed): the dataset file is written at most once in a run, and
\* only when the crawl has finished.
C17_WrittenOnceAtEnd ==
  writes = 0 \/ (writes = 1 /\ mainpc = "done")

\* C17 (amended): the file is written before the crawl has finished only at
\* startup, and only when the prior file holds duplicate item ids (it is then
\* rewritten with the duplicates removed); any other write is the one of the
\* merge pass after the crawl.
C17_WrittenAtStartupOnlyForDuplicates ==
  [][writes' # writes =>
      /\ writes' = writes + 1
      /\ \/ /\ mainpc = "start"
            /\ file.exists
            /\ ~NoDuplicateIds(file.rows)
            /\ NoDuplicateIds(file'.rows)
            /\ IdsOf(file'.rows) = IdsOf(file.rows)
         \/ /\ mainpc = "save"
            /\ mainpc' = "done"]_vars

\* C17 witness: a prior file of two rows with one item id was rewritten at
\* startup.
C17_Witness ==
  /\ mainpc = "crashed"
  /\ raised \in RecrawlErrors
  /\ writes = 1
  /\ Len(file.rows) = 1

Inked(t) ==
  LET F[i \in 0..Len(t)] ==
        IF i = 0 THEN <<>>
        ELSE IF t[i] \in Whitespace THEN F[i - 1] ELSE Append(F[i - 1], i)
  IN F[Len(t)]

\* The characters of t that are no whitespace, in order.
Ink(t) == [k \in 1..Len(Inked(t)) |-> t[Inked(t)[k]]]

\* The k such that the k-th and the next such character are in different tokens.
Breaks(t) == {k \in 1..(Len(Inked(t)) - 1) : Inked(t)[k + 1] > Inked(t)[k] + 1}

\* C19: the result of format_text holds the tokens of the text in their
\* order, separated by exactly one blank, with no other whitespace and none
\* at either end; and format_text applied to its result returns it unchanged.
C19_FormatTextCollapsesAndIsIdempotent ==
  /\ (utilpc \in {"formatted", "formatted_again"} =>
        /\ Ink(text_fmt) = Ink(text_white_space)
        /\ Breaks(text_fmt) = Breaks(text_white_space)
        /\ \A i \in 1..Len(text_fmt) : text_fmt[i] \in Whitespace => text_fmt[i] = " "
        /\ \A i \in 1..(Len(text_fmt) - 1) : ~(text_fmt[i] = " " /\ text_fmt[i + 1] = " ")
        /\ (Len(text_fmt) > 0 => (text_fmt[1] # " " /\ text_fmt[Len(text_fmt)] # " ")))
  /\ (utilpc = "formatted_again" => text_fmt_again = text_fmt)

\* C19 witness: a text that starts with a newline and holds two tokens
\* separated by two blanks.
C19_Witness ==
  /\ utilpc = "formatted_again"
  /\ text_white_space = <<"\n", "a", " ", " ", "b">>
  /\ text_fmt = <<"a", " ", "b">>

\* The faults that the page loop answers by fetching the page again.
RetriedFaults == {"ForbiddenError", "MPError", "ElementNotFound", "TimeoutException",
                  "Disconnected"}

\* C20: when the page loop catches a rate limit, a site error, a missing
\* element, a page-load timeout or a disconnect, the call goes on at the same
\* page number of the same category with the listings accumulated so far; and
\* after such a fault of the page fetch itself the loop condition still
\* holds, so that this page of this category is what is fetched next.
C20_RetryKeepsPageAndCategory ==
  /\ [][(/\ last_fault' # last_fault
          /\ last_fault'.at \in {"page", "item"}
          /\ last_fault'.kind \in RetriedFaults) =>
          /\ glpc' \in {"page", "page_sleep"}
          /\ current_page' = current_page
          /\ cat_idx' = cat_idx
          /\ categories' = categories
          /\ listings' = listings
          /\ result' = NoResult]_vars
  /\ []((/\ glpc \in {"page", "page_sleep"}
         /\ last_fault.kind \in RetriedFaults
         /\ last_fault.at = "page") =>
          /\ cat_idx <= Len(categories)
          /\ Len(listings) < max_listings)

\* C20 witness: the fetch of page 2 of the second target category timed out
\* after a listing was accumulated, and the call is about to fetch it again.
C20_Witness ==
  /\ glpc = "page"
  /\ last_fault = [kind |-> "TimeoutException", at |-> "page"]
  /\ current_page = 2
  /\ cat_idx = 2
  /\ Len(listings) = 1

\* The faults the page loop answers with a log line and a bare `continue`.
LoggedAndRetried == {"MPError", "ElementNotFound"}

\* The call is back at the head of the page loop after the fetch of the
\* current page signalled a generic site error or a missing element.
RetryingPage ==
  /\ glpc = "page"
  /\ last_fault.at = "page"
  /\ last_fault.kind \in LoggedAndRetried

\* C21: a generic site error or a missing element signalled by the fetch of
\* a page, while the accumulated count is below the effective limit, changes
\* nothing of the call but puts it back at the head of the page loop; there
\* the loop condition still holds and the call has not ended, and one more
\* such fault leaves the whole state as it is (no retry is counted), so that
\* under a fault on every fetch the call stays at this page of this category
\* and never returns.
C21_PersistentPageFaultNeverEnds ==
  /\ [][(/\ glpc = "page"
          /\ last_fault' # last_fault
          /\ last_fault'.at = "page"
          /\ last_fault'.kind \in LoggedAndRetried) =>
          /\ glpc' = "page"
          /\ current_page' = current_page
          /\ cat_idx' = cat_idx
          /\ categories' = categories
          /\ listings' = listings
          /\ item_ids' = item_ids
          /\ limit' = limit
          /\ max_listings' = max_listings
          /\ result' = NoResult]_vars
  /\ [](RetryingPage =>
          /\ cat_idx <= Len(categories)
          /\ Len(listings) < max_listings
          /\ result = NoResult
          /\ ENABLED (FetchPageFault /\ UNCHANGED vars))

\* C21 witness: the fetch of page 2 of the second target category signalled a
\* missing element after a listing was accumulated, and is about to be made again.
C21_Witness ==
  /\ RetryingPage
  /\ last_fault.kind = "ElementNotFound"
  /\ current_page = 2
  /\ cat_idx = 2
  /\ Len(listings) = 1
  /\ max_listings = 2

\* The call keeps running while it has a step to take, and a fetch that is
\* made again and again is eventually answered without a fault: no page-level
\* and no detail-level fault occurs infinitely often in a row.  (The listing
\* pages beyond MaxPage are empty, so every target category serves a page
\* with zero raw results once it is paged that far.)
FairCall ==
  /\ WF_vars(NextCall)
  /\ SF_vars(FetchPageOk)
  /\ SF_vars(DetailOk)

\* The calls on the first parent category whose caller has no item or the
\* first item (the other calls are these with the categories and the items
\* renamed).
InitCallFair ==
  /\ InitCall
  /\ parent_category = 1
  /\ existing_item_ids \subseteq {<<ORDINARY_PREFIX, 1>>}

SpecCallFair == InitCallFair /\ [][NextCall]_vars /\ FairCall

\* C22: when no page-level and no detail-level fault occurs infinitely often
\* in a row and every target category serves an empty page once it is paged
\* far enough, every get_listings call terminates: it is left by a return or
\* by an exception.
C22_CallTerminates == <>(glpc = "exit")

\* C22 witness: a call on two target categories has returned one listing,
\* fewer than its effective limit: both categories ended at an empty page.
C22_Witness ==
  /\ glpc = "exit"
  /\ result.kind = "return"
  /\ Len(categories) = 2
  /\ Len(result.listings) = 1
  /\ max_listings = 2
  /\ existing_item_ids # {}

\* Everything but the position inside get_listings.
AllButPosition ==
  <<mainVars, histVars, ddVars, utilVars, parent_category, arg_limit, existing_item_ids,
    listings, item_ids, listings_count, limit, max_listings, categories, cat_idx,
    current_page, res_listings, item_idx, result>>

\* The item loop stands at a raw item that passed the skips and the category
\* check: its detail is fetched next.
AtDetailFetch ==
  /\ glpc = "items"
  /\ item_idx <= Len(res_listings)
  /\ Len(listings) # limit
  /\ res_listings[item_idx].itemId[1] # MARKTPLAATS_ADVERTISEMENT_PREFIX
  /\ res_listings[item_idx].itemId \notin item_ids
  /\ res_listings[item_idx].categoryId = categories[cat_idx]

\* C23: a rate limit signalled by the detail fetch of a raw item puts the
\* call to sleep and then back at the same item with nothing changed (not
\* the listings, the effective limit, the page number, the category or the
\* item index; no retry is counted, so this repeats without bound); it never
\* reaches the handlers of the page loop; the sleep is left only for the
\* same item or by an interrupt; and a successful fetch appends that one
\* item, which was not in the listings before, and moves on to the next.
C23_RateLimitRetriesSameItem ==
  /\ [](AtDetailFetch =>
          /\ ENABLED DetailFaultOf("ForbiddenError")
          /\ ~ENABLED (DetailFaultOf("ForbiddenError") /\ glpc' # "detail_sleep"))
  /\ [][glpc' = "detail_sleep" => (AtDetailFetch /\ UNCHANGED AllButPosition)]_vars
  /\ [][glpc = "detail_sleep" =>
          \/ glpc' = "items" /\ UNCHANGED AllButPosition /\ AtDetailFetch'
          \/ glpc' = "exit" /\ result' = [kind |-> "ListingsInterrupt", listings |-> listings]]_vars
  /\ [](last_fault.at = "item" => last_fault.kind # "ForbiddenError")
  /\ [][Len(listings') > Len(listings) =>
          /\ AtDetailFetch
          /\ Len(listings') = Len(listings) + 1
          /\ SubSeq(listings', 1, Len(listings)) = listings
          /\ listings'[Len(listings')].item_id = res_listings[item_idx].itemId
          /\ res_listings[item_idx].itemId \notin IdsOf(listings)
          /\ item_idx' = item_idx + 1
          /\ max_listings' = max_listings]_vars

\* C23 witness: the call sleeps after a rate limit on the second raw item of
\* page 2, with one listing accumulated.
C23_Witness ==
  /\ glpc = "detail_sleep"
  /\ current_page = 2
  /\ item_idx = 2
  /\ Len(listings) = 1
  /\ max_listings = 2

\* What a failed item leaves behind: the call goes on with the next raw item
\* of the page, the effective limit one lower, nothing appended.
ItemFailed ==
  /\ glpc' = "items"
  /\ item_idx' = item_idx + 1
  /\ max_listings' = max_listings - 1
  /\ UNCHANGED <<listings, item_ids, limit, res_listings, current_page, cat_idx,
                 categories, result, last_fault>>

DetailRefetchesPage == {"TimeoutException", "Disconnected"}

C25_AccumulatedWithinEffectiveLimit ==
  /\ [](InCall => Len(listings) <= max_listings)
  /\ [][Len(listings') > Len(listings) => Len(listings) < max_listings]_vars

\* The item loop of the current page has ended: the page was read to its
\* last raw item, or left by the break at the limit.
PageProcessed ==
  /\ glpc = "items"
  /\ item_idx > Len(res_listings) \/ Len(listings) = limit

\* C26: the first target category starts at page 1; the page number changes
\* only by rising by one when the item loop of a page has ended without a
\* fault (which then always happens, also when every item was skipped), or
\* by going back to 1 when the next target category is taken; a page with
\* zero raw results ends the category; and once the accumulated count has
\* reached the effective limit it stays there and no page of any category is
\* fetched.
C26_PaginationByOneFromPageOne ==
  /\ [][(glpc = "subcats" /\ glpc' = "page") => (current_page' = 1 /\ cat_idx' = 1)]_vars
  /\ [][current_page' # current_page =>
          \/ PageProcessed /\ current_page' = current_page + 1 /\ cat_idx' = cat_idx
          \/ current_page' = 1 /\ cat_idx' = cat_idx + 1]_vars
  /\ [][cat_idx' # cat_idx =>
          (glpc = "page" /\ cat_idx' = cat_idx + 1 /\ current_page' = 1)]_vars
  /\ [][(glpc = "items" /\ glpc' = "page" /\ last_fault' = last_fault) =>
          (PageProcessed /\ current_page' = current_page + 1 /\ cat_idx' = cat_idx)]_vars
  /\ [](PageProcessed =>
          /\ ENABLED EndOfPage
          /\ ~ENABLED (GetListingsStep /\ current_page' # current_page + 1))
  /\ []((glpc = "page" /\ cat_idx <= Len(categories) /\ Len(listings) < max_listings) =>
          /\ ENABLED FetchPageOf(<<>>)
          /\ ~ENABLED (FetchPageOf(<<>>) /\
                 ~(cat_idx' = cat_idx + 1 /\ current_page' = 1 /\ listings' = listings)))
  /\ []((InCall /\ glpc # "count" /\ Len(listings) >= max_listings) =>
          (~ENABLED FetchPageOk /\ ~ENABLED FetchPageFault))
  /\ [][(glpc # "count" /\ Len(listings) >= max_listings) =>
          Len(listings') >= max_listings']_vars

\* C26 witness: the call is about to fetch page 2 of its second target
\* category with nothing accumulated and the effective limit untouched: the
\* first category ended at an empty page, and every item of page 1 of the
\* second was skipped.
C26_Witness ==
  /\ glpc = "page"
  /\ last_fault = NoFault
  /\ cat_idx = 2
  /\ current_page = 2
  /\ Len(listings) = 0
  /\ limit = 2
  /\ max_listings = 2

\* The item loop stands at a raw item that is sponsored.
AtSponsoredItem ==
  /\ glpc = "items"
  /\ item_idx <= Len(res_listings)
  /\ Len(listings) # limit
  /\ res_listings[item_idx].itemId[1] = MARKTPLAATS_ADVERTISEMENT_PREFIX

\* The item loop stands at a raw item that is not sponsored and whose id is
\* already known (the caller has it, or it was accepted earlier in the call).
AtKnownItem ==
  /\ glpc = "items"
  /\ item_idx <= Len(res_listings)
  /\ Len(listings) # limit
  /\ res_listings[item_idx].itemId[1] # MARKTPLAATS_ADVERTISEMENT_PREFIX
  /\ res_listings[item_idx].itemId \in item_ids

\* C27: a known raw item is skipped, and the skip lowers the effective limit
\* by one if the resolved limit equals the listings count and leaves it
\* unchanged otherwise; the resolved limit equals the listings count exactly
\* when the requested limit is 0 or not below the count; a sponsored raw
\* item is skipped with the effective limit unchanged.
C27_KnownSkipDecrementsIffNoCap ==
  /\ [](AtKnownItem => ENABLED SkipKnown)
  /\ [][AtKnownItem =>
          /\ glpc' = "items"
          /\ item_idx' = item_idx + 1
          /\ listings' = listings
          /\ limit' = limit
          /\ (limit = listings_count => max_listings' = max_listings - 1)
          /\ (limit # listings_count => max_listings' = max_listings)]_vars
  /\ [](glpc = "items" =>
          /\ (limit = listings_count <=> (arg_limit = 0 \/ arg_limit >= listings_count))
          /\ ((arg_limit > 0 /\ arg_limit < listings_count) => limit = arg_limit))
  /\ [](AtSponsoredItem => ENABLED SkipSponsored)
  /\ [][AtSponsoredItem =>
          /\ glpc' = "items"
          /\ item_idx' = item_idx + 1
          /\ listings' = listings
          /\ limit' = limit
          /\ max_listings' = max_listings]_vars

\* C27 witness: a call with limit 1 on a category that reports 2 listings
\* has skipped a raw item the caller already had, and its effective limit is
\* still 1.
C27_Witness ==
  /\ glpc = "items"
  /\ item_idx = 2
  /\ res_listings[1].itemId \in existing_item_ids
  /\ arg_limit = 1
  /\ listings_count = 2
  /\ max_listings = 1
  /\ Len(listings) = 0

\* The subcategory discovery of the call has returned.
TargetsResolved == glpc \in {"page", "items", "detail"} \/ (glpc = "exit" /\ categories # <<>>)

\* The category ids of the target list.
TargetIds == {categories[i] : i \in 1..Len(categories)}

\* C28: when the subcategory discovery times out waiting for the category UI
\* or finds no subcategory, the call raises no error and its only target is
\* the parent category; when subcategories are found, the targets are these
\* subcategories, each once, and the parent category is not among them, so
\* no page of the parent is fetched and no listing is taken from it.
C28_ParentIsFallbackTargetOnly ==
  /\ [](glpc = "subcats" =>
          /\ ENABLED (GetSubcategoriesOk /\ ui_timeout')
          /\ ~ENABLED (GetSubcategoriesOk /\ ui_timeout'
                         /\ ~(categories' = <<parent_category>> /\ glpc' = "page"
                               /\ result' = NoResult))
          /\ ENABLED (GetSubcategoriesOk /\ ~ui_timeout' /\ categories' = <<parent_category>>)
          /\ ENABLED (GetSubcategoriesOk /\ ~ui_timeout' /\ categories' # <<parent_category>>))
  /\ [][(glpc = "subcats" /\ glpc' # "exit") =>
          /\ glpc' = "page"
          /\ result' = NoResult
          /\ cat_idx' = 1
          /\ current_page' = 1
          /\ listings' = <<>>]_vars
  /\ [](TargetsResolved =>
          /\ (ui_timeout => categories = <<parent_category>>)
          /\ \/ categories = <<parent_category>>
             \/ /\ TargetIds \subseteq SubcategoryIds
                /\ TargetIds # {}
                /\ parent_category \notin TargetIds
                /\ Len(categories) = Cardinality(TargetIds)
          /\ \A i \in 1..Len(listings) :
               /\ listings[i].child_category_id \in TargetIds
               /\ listings[i].parent_category_id = parent_category
          /\ (glpc \in {"items", "detail"} => category_id \in TargetIds))

\* C28 witness: the discovery timed out, the parent category was the only
\* target, and the call returned a listing crawled from the parent's pages.
C28_Witness ==
  /\ glpc = "exit"
  /\ result.kind = "return"
  /\ ui_timeout
  /\ categories = <<parent_category>>
  /\ Len(result.listings) = 1
  /\ result.listings[1].child_category_id = parent_category

\* A call made by main has been left because its subcategory discovery
\* raised an error (not a cancellation).
DiscoveryFailed ==
  /\ mainpc = "call"
  /\ glpc = "exit"
  /\ last_fault.at = "subcats"
  /\ last_fault.kind # "KeyboardInterrupt"

\* C29: an error of the subcategory discovery (a missing element or any
\* other but the timeout of the UI wait) ends the call with ListingsError
\* carrying no listing, before any listing page is fetched, and main then
\* enters no further get_listings call.
C29_DiscoveryErrorIsFatal ==
  /\ [](glpc = "subcats" =>
          /\ ENABLED (GetSubcategoriesFault /\ last_fault'.kind = "ElementNotFound")
          /\ ~ENABLED (GetSubcategoriesFault /\ last_fault'.kind # "KeyboardInterrupt"
                         /\ result' # [kind |-> "ListingsError", listings |-> <<>>])
          /\ categories = <<>>
          /\ res_listings = <<>>
          /\ served = <<>>
          /\ offered = {}
          /\ listings = <<>>)
  /\ [](DiscoveryFailed =>
          /\ result = [kind |-> "ListingsError", listings |-> <<>>]
          /\ categories = <<>>
          /\ res_listings = <<>>
          /\ served = <<>>
          /\ offered = {})
  /\ [][DiscoveryFailed =>
          /\ stop'
          /\ mainpc' = "loop"
          /\ glpc' = "idle"
          /\ parent_categories' = parent_categories
          /\ listings_df' = listings_df]_vars
  /\ [][stop => (stop' /\ glpc' = glpc /\ parent_categories' = parent_categories)]_vars

\* C29 witness: the discovery of a call made by main did not find an element,
\* the call has raised ListingsError with no listing, and a parent category
\* is still uncrawled.
C29_Witness ==
  /\ DiscoveryFailed
  /\ last_fault.kind = "ElementNotFound"
  /\ result = [kind |-> "ListingsError", listings |-> <<>>]
  /\ parent_categories # {}

\* min(requested limit, count), a requested limit of 0 standing for no limit.
MinOfLimitAndCount(requested, count) ==
  IF requested = 0 THEN count
  ELSE IF requested < count THEN requested ELSE count

\* The call is inside its crawl: the limit is resolved and the call has not
\* been left.
InsideCrawl == glpc \in {"subcats", "page", "page_sleep", "items", "detail_sleep"}

\* C30: the limit and the effective limit are resolved to the smaller of the
\* requested limit and the listings count, a requested limit of 0 resolving
\* to the count, and the resolved limit stays so for the rest of the call; a
\* call on a category whose listings count is 0 fetches no listing page and
\* carries no listing however it ends, and returns the empty list once the
\* targets are resolved.
C30_LimitIsMinOfRequestAndCount ==
  /\ [][(glpc = "count" /\ glpc' # "exit") =>
          /\ glpc' = "subcats"
          /\ limit' = MinOfLimitAndCount(arg_limit, listings_count')
          /\ max_listings' = limit'
          /\ arg_limit' = arg_limit]_vars
  /\ [](InsideCrawl =>
          /\ limit = MinOfLimitAndCount(arg_limit, listings_count)
          /\ max_listings <= limit)
  /\ []((glpc # "count" /\ listings_count = 0) =>
          /\ glpc \in {"subcats", "page", "exit"}
          /\ listings = <<>>
          /\ res_listings = <<>>
          /\ served = <<>>
          /\ offered = {}
          /\ ~ENABLED FetchPageOk
          /\ ~ENABLED FetchPageFault
          /\ (glpc = "page" => ENABLED (NextCategory \/ Return))
          /\ (glpc = "exit" => result.listings = <<>>)
          /\ ((glpc = "exit" /\ categories # <<>>) =>
                result = [kind |-> "return", listings |-> <<>>]))

\* C30 witness: a call with a positive limit on a category that reports no
\* listing has resolved its targets and returned the empty list.
C30_Witness ==
  /\ glpc = "exit"
  /\ arg_limit > 0
  /\ listings_count = 0
  /\ limit = 0
  /\ categories # <<>>
  /\ cat_idx > Len(categories)
  /\ result = [kind |-> "return", listings |-> <<>>]

\* The listings a finished get_listings call hands to main: its return
\* value, or the listings carried by ListingsError / ListingsInterrupt.
HandedOver ==
  IF result.kind \in {"return", "ListingsError", "ListingsInterrupt"}
    THEN result.listings
    ELSE <<>>

\* out holds every item id of df once, each with the last row df has for it,
\* in the order these last rows have in df.
IsLastRowPerId(out, df) ==
  /\ NoDuplicateIds(out)
  /\ IdsOf(out) = IdsOf(df)
  /\ \A k \in 1..Len(out) : out[k] = df[LastIndexOf(df, out[k].item_id)]
  /\ \A k, l \in 1..Len(out) :
       k < l => LastIndexOf(df, out[k].item_id) < LastIndexOf(df, out[l].item_id)

C32_UnlimitedRunCallsOnce ==
  /\ []((args_limit = 0 /\ mainpc = "call") =>
          /\ arg_limit = 0
          /\ remaining_limit = 0
          /\ ~stop
          /\ accepted_total = Len(listings))
  /\ [][(args_limit = 0 /\ mainpc = "call" /\ mainpc' # "call") =>
          \/ /\ mainpc' = "loop"
             /\ stop'
             /\ remaining_limit' < 1
             /\ (result.kind = "return" => remaining_limit' = 0 - Len(result.listings))
             /\ parent_categories' = parent_categories
          \/ mainpc' = "crashed"]_vars
  /\ [][(args_limit = 0 /\ stop) =>
          /\ stop'
          /\ mainpc' \in {"save", "done"}
          /\ glpc' = "idle"]_vars
  /\ []((mainpc = "loop" /\ stop) => ~ENABLED MainCall)

\* C32 witness: the first call of a run with limit 0 returned a listing, the
\* remaining limit is below zero, and the crawl has stopped with a parent
\* category left uncrawled.
C32_Witness ==
  /\ args_limit = 0
  /\ mainpc = "loop"
  /\ stop
  /\ remaining_limit < 0
  /\ parent_categories # {}
  /\ Len(listings_df) > 0

\* C33 (as claimed): within one call the effective limit is lowered at most
\* once for each distinct raw item id: the skip of a raw item that was
\* accepted earlier in the same call leaves the effective limit as it is,
\* and the effective limit is never lower than the resolved limit by more
\* than the number of distinct ordinary item ids there are.
C33_DecrementOncePerItemId ==
  /\ [][(AtKnownItem /\ res_listings[item_idx].itemId \in IdsOf(listings)) =>
          max_listings' = max_listings]_vars
  /\ [](InsideCrawl => limit - max_listings <= Cardinality(OrdinaryIds))

\* C34: a get_listings call leaves the caller's existing_item_ids set as it
\* was given, whatever it accepts; main gives every call of a run its
\* item_ids set and never changes it between or after the calls; so no id
\* accepted by a call of the run is in the exclusion set of a call.
C34_ExclusionSetIsNeverChanged ==
  /\ [][(glpc # "idle" /\ glpc' # "idle") =>
          /\ existing_item_ids' = existing_item_ids
          /\ existing_item_ids \subseteq item_ids']_vars
  /\ [](mainpc = "call" => existing_item_ids = main_item_ids)
  /\ [][(mainpc \in {"discover", "loop", "call", "save"}) =>
          main_item_ids' = main_item_ids]_vars
  /\ [](mainpc = "call" => existing_item_ids \cap accumulated = {})

\* C34 witness: a second parent-category call of a run has accepted the item
\* id that the first call accepted.
C34_Witness ==
  /\ mainpc = "call"
  /\ glpc = "items"
  /\ Len(listings_df) = 1
  /\ Len(listings) = 1
  /\ listings[1].item_id = listings_df[1].item_id
  /\ listings[1].item_id \notin existing_item_ids

====
